---- MODULE Spec2Model ----
(***************************************************************************)
(* Model of the keeweb-connect background Backend (connection state        *)
(* machine and single-flight request queue, src/src/background/backend.ts) *)
(* together with the handshake of ProtocolImpl                             *)
(* (src/src/background/protocol/protocol-impl.ts).                         *)
(*                                                                         *)
(* JavaScript runs one macrotask at a time and drains all promise          *)
(* continuations (microtasks) before the next macrotask.  Every action     *)
(* below is one macrotask: the handler, followed by the continuations of   *)
(* the promises the handler settled (RunContinuations).  The suspension    *)
(* points that last longer than a microtask are the awaits on the          *)
(* transport: Transport.connect(), Transport.disconnect() and the          *)
(* response to a request.                                                  *)
(***************************************************************************)
EXTENDS Integers, Sequences, FiniteSets, TLC

\* Bounds of the model.
MaxRequests == 3        \* domain requests submitted (handshakes not counted)
MaxTransports == 2      \* connection attempts that instantiate a transport
MaxConfigChanges == 1   \* storage change events

VARIABLES
    state,              \* Backend._state
    connectionError,    \* Backend._connectionError ("none" = undefined)
    useNativeApp,       \* Backend._useNativeApp
    transport,          \* Backend._transport: index into transports, 0 = undefined
    protocol,           \* Backend._protocol: index into keewebPublicKey, 0 = undefined
    requestQueue,       \* Backend._requestQueue: sequence of request ids
    currentRequest,     \* Backend._currentRequest: request id, 0 = undefined
    requests,           \* every RequestQueueItem ever created, by id
    transports,         \* every transport instance ever created
    keewebPublicKey,    \* ProtocolImpl._keewebPublicKey is set, per ProtocolImpl instance
    connects,           \* every connect() call that started an attempt (async frames)
    joiners,            \* the connect() calls that started no attempt, and their promises
    storageAwait,       \* storageChanged frames suspended at 'await disconnect()'
    configChanges,      \* storage change events so far
    dispatchLog,        \* history: the calls of Transport.request, in order
    nonceCheck          \* one call of ProtocolImpl.decryptResponsePayload: inputs and outcome

vars == <<state, connectionError, useNativeApp, transport, protocol, requestQueue,
          currentRequest, requests, transports, keewebPublicKey, connects, joiners,
          storageAwait, configChanges, dispatchLog, nonceCheck>>

\* BackendConnectionState
Initializing == "Initializing"
ReadyToConnect == "ReadyToConnect"
Connecting == "Connecting"
Connected == "Connected"
Error == "Error"

\* Request actions
ChangePublicKeys == "change-public-keys"
GetDatabaseHash == "get-databasehash"

\* Error texts
ErrReconnecting == "Reconnecting"
ErrConfigChanged == "Config changed"
ErrRequestTimeout == "errorRequestTimeout"
ErrConnectionErrorApp == "errorConnectionErrorApp"
ErrConnectionErrorWeb == "errorConnectionErrorWeb"
ErrKeeWebDisconnected == "errorKeeWebDisconnected"
ErrAppReturnedError == "errorAppReturnedError"
ErrTransportConnect == "transport connect failed"
ErrBadPublicKey == "bad publicKey in response"

Range(s) == {s[i] : i \in DOMAIN s}

\* The mutable fields of the Backend and of the objects it owns, as one value
\* that the handlers below transform.
Cur ==
    [state |-> state, connectionError |-> connectionError, useNativeApp |-> useNativeApp,
     transport |-> transport, protocol |-> protocol, requestQueue |-> requestQueue,
     currentRequest |-> currentRequest, requests |-> requests, transports |-> transports,
     keewebPublicKey |-> keewebPublicKey, connects |-> connects, joiners |-> joiners,
     dispatchLog |-> dispatchLog]

Commit(b) ==
    /\ state' = b.state
    /\ connectionError' = b.connectionError
    /\ useNativeApp' = b.useNativeApp
    /\ transport' = b.transport
    /\ protocol' = b.protocol
    /\ requestQueue' = b.requestQueue
    /\ currentRequest' = b.currentRequest
    /\ requests' = b.requests
    /\ transports' = b.transports
    /\ keewebPublicKey' = b.keewebPublicKey
    /\ connects' = b.connects
    /\ joiners' = b.joiners
    /\ dispatchLog' = b.dispatchLog

\* Backend.setState
setState(b, s) == [b EXCEPT !.state = s]

\* Promise resolve / reject of a RequestQueueItem: the first settlement wins.
resolve(b, r, msg) ==
    IF b.requests[r].status = "pending"
    THEN [b EXCEPT !.requests[r].status = "resolved", !.requests[r].response = msg]
    ELSE b

reject(b, r, err) ==
    IF b.requests[r].status = "pending"
    THEN [b EXCEPT !.requests[r].status = "rejected", !.requests[r].error = err]
    ELSE b

clearTimeout(b, r) == [b EXCEPT !.requests[r].timeout = FALSE]

\* A message of the peer: the response to request `for` (0: none), possibly an
\* error response, or an unsolicited notification (action # "").
NoMessage == [action |-> "", for |-> 0, error |-> FALSE]
Response(r, e) == [action |-> "", for |-> r, error |-> e]
Notification(a) == [action |-> a, for |-> 0, error |-> FALSE]
NotificationActions == {"database-locked", "database-unlocked", "attention-required"}

\* Mutant of rejectPendingRequests: the queued requests are dropped without
\* being rejected.
rejectPendingRequests_CurrentOnly(b, error) ==
    LET cur == b.currentRequest
        b1 == IF cur # 0
              THEN [reject(clearTimeout(b, cur), cur, error) EXCEPT !.currentRequest = 0]
              ELSE b
    IN [b1 EXCEPT !.requestQueue = <<>>]

\* Backend.rejectPendingRequests: the timer of the current request is cleared,
\* the timers of the queued requests are not.
rejectPendingRequests(b, error) ==
    LET cur == b.currentRequest
        b1 == IF cur # 0
              THEN [reject(clearTimeout(b, cur), cur, error) EXCEPT !.currentRequest = 0]
              ELSE b
        queued == Range(b1.requestQueue)
    IN [b1 EXCEPT
           !.requests = [r \in DOMAIN b1.requests |->
               IF r \in queued /\ b1.requests[r].status = "pending"
               THEN [b1.requests[r] EXCEPT !.status = "rejected", !.error = error]
               ELSE b1.requests[r]],
           !.requestQueue = <<>>]

\* Backend.sendTransportRequest: this._transport?.request(request).  A transport
\* whose channel is open takes the request and will answer it; the call is
\* recorded in dispatchLog together with the state it was made in.
sendTransportRequest(b, r) ==
    LET t == b.transport
        b1 == [b EXCEPT !.dispatchLog =
                  Append(@, [request |-> r, state |-> b.state, transport |-> t])]
    IN IF t # 0 /\ b1.transports[t].phase = "open"
       THEN [b1 EXCEPT !.transports[t].sent = Append(@, r)]
       ELSE b1

\* Mutant of processRequestQueue: the connection state is not looked at.
processRequestQueue_AnyState(b) ==
    IF b.currentRequest # 0 \/ Len(b.requestQueue) = 0 THEN b
    ELSE LET r == Head(b.requestQueue)
             b1 == [b EXCEPT !.currentRequest = r, !.requestQueue = Tail(@)]
         IN sendTransportRequest(b1, r)

\* Mutant of processRequestQueue: the newest item is taken (pop instead of shift).
processRequestQueue_Lifo(b) ==
    IF b.currentRequest # 0 \/ Len(b.requestQueue) = 0 THEN b
    ELSE IF b.state = Connecting /\ b.requests[Head(b.requestQueue)].action # ChangePublicKeys
    THEN b
    ELSE IF b.state # Connecting /\ b.state # Connected THEN b
    ELSE LET n == Len(b.requestQueue)
             r == b.requestQueue[n]
             b1 == [b EXCEPT !.currentRequest = r, !.requestQueue = SubSeq(@, 1, n - 1)]
         IN sendTransportRequest(b1, r)

\* Backend.processRequestQueue
processRequestQueue(b) ==
    IF b.currentRequest # 0 \/ Len(b.requestQueue) = 0 THEN b
    ELSE IF b.state = Connecting /\ b.requests[Head(b.requestQueue)].action # ChangePublicKeys
    THEN b
    ELSE IF b.state # Connecting /\ b.state # Connected THEN b
    ELSE LET r == Head(b.requestQueue)
             b1 == [b EXCEPT !.currentRequest = r, !.requestQueue = Tail(@)]
         IN sendTransportRequest(b1, r)

\* Backend.request: a new RequestQueueItem with its timer armed is pushed and the
\* queue is processed.  The id of the item is its submission number.
request(b, action) ==
    LET item == [action |-> action, status |-> "pending", timeout |-> TRUE,
                 error |-> "none", response |-> NoMessage]
        r == Len(b.requests) + 1
        b1 == [b EXCEPT !.requests = Append(@, item), !.requestQueue = Append(@, r)]
    IN processRequestQueue(b1)

\* Mutant of requestTimeout: the callback forgets to reject the promise.
requestTimeout_NoReject(b, r) ==
    [b EXCEPT !.requests[r].timeout = FALSE, !.currentRequest = 0]

\* The callback of window.setTimeout in Backend.request, for item r.
requestTimeout(b, r) ==
    LET b1 == [b EXCEPT !.requests[r].timeout = FALSE, !.currentRequest = 0]
    IN reject(b1, r, ErrRequestTimeout)

\* Backend.focusKeeWebTab: this._transport?.focusKeeWeb().  An open transport
\* brings KeeWeb to the front; a transport that is not open has nothing to focus.
focusKeeWebTab(b) ==
    IF b.transport # 0 /\ b.transports[b.transport].phase = "open"
    THEN [b EXCEPT !.transports[b.transport].focused = TRUE]
    ELSE b

\* Mutant of transportMessage: no switch on msg.action, every message is taken
\* for the response to the current request.
transportMessage_NoSwitch(b, msg) ==
    LET cur == b.currentRequest
        b1 == IF cur # 0
              THEN [resolve(clearTimeout(b, cur), cur, msg) EXCEPT !.currentRequest = 0]
              ELSE b
    IN processRequestQueue(b1)

\* Backend.transportMessage
transportMessage(b, msg) ==
    IF msg.action \in {"database-locked", "database-unlocked"} THEN b
    ELSE IF msg.action = "attention-required" THEN focusKeeWebTab(b)
    ELSE LET cur == b.currentRequest
             b1 == IF cur # 0
                   THEN [resolve(clearTimeout(b, cur), cur, msg) EXCEPT !.currentRequest = 0]
                   ELSE b
         IN processRequestQueue(b1)

\* this.emit('connect-finished', e): every listener registered with once() by a
\* joining connect() call settles its promise and is removed.
emitConnectFinished(b, failed) ==
    [b EXCEPT !.joiners = {IF j.promise = "pending"
                           THEN [j EXCEPT !.promise = IF failed THEN "rejected" ELSE "resolved"]
                           ELSE j : j \in b.joiners}]

\* Backend.connect, after the awaits succeeded: lines 126-131.
connectFinish(b, a) ==
    LET b1 == emitConnectFinished(setState(b, Connected), FALSE)
    IN [b1 EXCEPT !.connects[a].pc = "done", !.connects[a].outcome = "connected",
                  !.connects[a].promise = "resolved"]

\* Backend.connect, catch block: the error is recorded and emitted, not rethrown,
\* so the promise of the async function resolves.
connectCatch(b, a, message) ==
    LET b1 == [b EXCEPT !.connectionError = message]
        b2 == emitConnectFinished(setState(b1, Error), TRUE)
    IN [b2 EXCEPT !.connects[a].pc = "done", !.connects[a].outcome = "failed",
                  !.connects[a].promise = "resolved"]

\* ProtocolImpl.request / checkResponseError / changePublicKeys after the await of
\* the handshake request of connect frame a, followed by the rest of connect().
changePublicKeysResume(b, a) ==
    LET c == b.connects[a]
        q == b.requests[c.handshake]
    IN IF q.status = "rejected" THEN connectCatch(b, a, q.error)
       ELSE IF q.response.error THEN connectCatch(b, a, ErrAppReturnedError)
       ELSE IF q.response.for = 0 \/ b.requests[q.response.for].action # ChangePublicKeys
       THEN connectCatch(b, a, ErrBadPublicKey)
       ELSE connectFinish([b EXCEPT !.keewebPublicKey[c.protocol] = TRUE], a)

\* The connect frames whose awaited handshake request has been settled.
Resumable(b) ==
    {a \in DOMAIN b.connects :
        /\ b.connects[a].pc = "changePublicKeys"
        /\ b.requests[b.connects[a].handshake].status # "pending"}

\* The microtasks run after a handler: every connect frame whose handshake the
\* handler settled continues, in the order the handshakes were submitted.
RECURSIVE RunContinuations(_)
RunContinuations(b) ==
    IF Resumable(b) = {} THEN b
    ELSE LET a == CHOOSE x \in Resumable(b) :
                      \A y \in Resumable(b) : b.connects[x].handshake <= b.connects[y].handshake
         IN RunContinuations(changePublicKeysResume(b, a))

\* Backend.resetStateByConfig
resetStateByConfig(b) == setState([b EXCEPT !.connectionError = "none"], ReadyToConnect)

\* Backend.initTransport: a new transport with both listeners attached and a new
\* ProtocolImpl (no peer key yet).
initTransport(b) ==
    LET t == Len(b.transports) + 1
    IN [b EXCEPT !.transports = Append(@, [phase |-> "new", listeners |-> TRUE,
                                           sent |-> <<>>, disconnected |-> FALSE,
                                           focused |-> FALSE]),
                 !.transport = t,
                 !.keewebPublicKey = Append(@, FALSE),
                 !.protocol = t]

\* The 'disconnected' listener installed by initTransport.
transportDisconnected(b) ==
    LET msg == IF b.state = Connecting
               THEN (IF b.useNativeApp THEN ErrConnectionErrorApp ELSE ErrConnectionErrorWeb)
               ELSE ErrKeeWebDisconnected
        b1 == setState([b EXCEPT !.connectionError = msg], Error)
    IN rejectPendingRequests(b1, msg)

\* State after construction of the Backend singleton.
Constructed ==
    /\ state = Initializing
    /\ connectionError = "none"
    /\ useNativeApp = TRUE
    /\ transport = 0
    /\ protocol = 0
    /\ requestQueue = <<>>
    /\ currentRequest = 0
    /\ requests = <<>>
    /\ transports = <<>>
    /\ keewebPublicKey = <<>>
    /\ connects = <<>>
    /\ joiners = {}
    /\ storageAwait = 0
    /\ configChanges = 0
    /\ dispatchLog = <<>>

\* No call of decryptResponsePayload is under way.
NoCheck ==
    [pc |-> "idle", request |-> [nonce |-> <<>>], response |-> [message |-> <<>>, nonce |-> <<>>],
     result |-> "none", expected |-> <<>>, opened |-> FALSE]

Init ==
    /\ Constructed
    /\ nonceCheck = NoCheck

\* Backend.init: the storage listener is registered and the stored configuration
\* (the default one) is read; the host awaits init() before it uses the backend.
BackendInit ==
    /\ state = Initializing
    /\ Commit(resetStateByConfig([Cur EXCEPT !.useNativeApp = TRUE]))
    /\ UNCHANGED <<storageAwait, configChanges, nonceCheck>>

\* Mutant of connectJoin: the joining call also sets up a transport of its own.
connectJoin_Restart(b) ==
    LET b1 == initTransport(b)
    IN [b1 EXCEPT !.joiners = @ \cup {[attempt |-> Len(b.connects), promise |-> "pending"]}]

\* Backend.connect while Connecting: the call waits for 'connect-finished'.
\* Calls that joined during the same attempt and were settled alike are not told
\* apart, so any number of them is one element of joiners.
connectJoin(b) ==
    [b EXCEPT !.joiners = @ \cup {[attempt |-> Len(b.connects), promise |-> "pending"]}]

ConnectJoin ==
    /\ state = Connecting
    /\ Commit(connectJoin(Cur))
    /\ UNCHANGED <<storageAwait, configChanges, nonceCheck>>

\* Backend.connect in any other state, up to 'await this._transport.connect()'.
connectStart(b) ==
    LET b1 == rejectPendingRequests(b, ErrReconnecting)
        b2 == setState([b1 EXCEPT !.connectionError = "none"], Connecting)
        b3 == initTransport(b2)
        t == b3.transport
    IN [b3 EXCEPT !.transports[t].phase = "connecting",
                  !.connects = Append(@, [pc |-> "transportConnect", transport |-> t,
                                          handshake |-> 0, protocol |-> 0,
                                          outcome |-> "none", promise |-> "pending"])]

\* Mutant of connectReturn: no check for Connected, the call falls through to a
\* new attempt.
connectReturn_FallThrough(b) == connectStart(b)

\* Backend.connect while Connected: the call returns a resolved promise.  Such
\* calls are kept in joiners with attempt 0, as they belong to no attempt.
connectReturn(b) ==
    [b EXCEPT !.joiners = @ \cup {[attempt |-> 0, promise |-> "resolved"]}]

ConnectWhenConnected ==
    /\ state = Connected
    /\ Commit(connectReturn(Cur))
    /\ UNCHANGED <<storageAwait, configChanges, nonceCheck>>

ConnectStart ==
    /\ state \in {ReadyToConnect, Error}
    /\ Len(transports) < MaxTransports
    /\ Commit(RunContinuations(connectStart(Cur)))
    /\ UNCHANGED <<storageAwait, configChanges, nonceCheck>>

\* Transport.connect() of connect frame a resolves: the frame calls
\* this._protocol.changePublicKeys(), which submits the handshake request.
transportConnectResolved(b, a) ==
    LET t == b.connects[a].transport
        b1 == IF b.transports[t].phase = "connecting"
              THEN [b EXCEPT !.transports[t].phase = "open"] ELSE b
        b2 == request(b1, ChangePublicKeys)
    IN [b2 EXCEPT !.connects[a].pc = "changePublicKeys",
                  !.connects[a].handshake = Len(b2.requests),
                  !.connects[a].protocol = b.protocol]

TransportConnectResolved(a) ==
    /\ connects[a].pc = "transportConnect"
    /\ Commit(transportConnectResolved(Cur, a))
    /\ UNCHANGED <<storageAwait, configChanges, nonceCheck>>

\* Transport.connect() of connect frame a rejects: the catch block runs.
transportConnectRejected(b, a) ==
    LET t == b.connects[a].transport
        b1 == IF b.transports[t].phase = "connecting"
              THEN [b EXCEPT !.transports[t].phase = "failed"] ELSE b
    IN connectCatch(b1, a, ErrTransportConnect)

TransportConnectRejected(a) ==
    /\ connects[a].pc = "transportConnect"
    /\ Commit(transportConnectRejected(Cur, a))
    /\ UNCHANGED <<storageAwait, configChanges, nonceCheck>>

\* A domain operation of the current ProtocolImpl (getDatabaseHash and the like):
\* makeEncryptedRequest needs the peer key, then Backend.request is called
\* through the TransportAdapter.
Request ==
    /\ protocol # 0
    /\ keewebPublicKey[protocol]
    /\ Cardinality({r \in DOMAIN requests : requests[r].action # ChangePublicKeys}) < MaxRequests
    /\ Commit(request(Cur, GetDatabaseHash))
    /\ UNCHANGED <<storageAwait, configChanges, nonceCheck>>

\* Transport collaborator: an instance emits events while its channel is open,
\* that is after its connect() resolved and before it was disconnected; they
\* reach the Backend while its listeners are attached.
Emits(t) == transports[t].phase = "open" /\ transports[t].listeners

\* Transport t emits 'message' with the peer's answer to the oldest request it
\* has taken and not answered yet.
TransportMessage(t) ==
    /\ Emits(t)
    /\ transports[t].sent # <<>>
    /\ LET r == Head(transports[t].sent)
           b == [Cur EXCEPT !.transports[t].sent = Tail(@)]
       IN \E e \in (IF requests[r].action = ChangePublicKeys THEN BOOLEAN ELSE {FALSE}) :
              Commit(RunContinuations(transportMessage(b, Response(r, e))))
    /\ UNCHANGED <<storageAwait, configChanges, nonceCheck>>

\* Transport t emits 'message' with an unsolicited notification.
TransportNotification(t) ==
    /\ Emits(t)
    /\ \E a \in NotificationActions :
           Commit(RunContinuations(transportMessage(Cur, Notification(a))))
    /\ UNCHANGED <<storageAwait, configChanges, nonceCheck>>

\* The timer of request r fires.  All timers have the same delay, so they fire
\* in the order they were armed.
Timeout(r) ==
    /\ r \in DOMAIN requests
    /\ requests[r].timeout
    /\ \A r2 \in 1..(r - 1) : ~requests[r2].timeout
    /\ Commit(RunContinuations(requestTimeout(Cur, r)))
    /\ UNCHANGED <<storageAwait, configChanges, nonceCheck>>

\* Transport t loses its channel and emits 'disconnected' (at most once).
Disconnected(t) ==
    /\ Emits(t)
    /\ LET b == [Cur EXCEPT !.transports[t].phase = "closed",
                            !.transports[t].sent = <<>>,
                            !.transports[t].focused = FALSE,
                            !.transports[t].disconnected = TRUE]
       IN Commit(RunContinuations(transportDisconnected(b)))
    /\ UNCHANGED <<storageAwait, configChanges, nonceCheck>>

\* Backend.storageChanged after 'await this._transport.disconnect()', or from its
\* start when there is no transport.
storageChangedFinish(b) == rejectPendingRequests(resetStateByConfig(b), ErrConfigChanged)

\* Backend.storageChanged for a change of useNativeApp or keeWebUrl, up to the
\* await of Transport.disconnect() when there is a transport.
StorageChanged ==
    /\ state # Initializing
    /\ configChanges < MaxConfigChanges
    /\ configChanges' = configChanges + 1
    /\ UNCHANGED nonceCheck
    /\ \E key \in {"useNativeApp", "keeWebUrl"} :
         LET b == IF key = "useNativeApp" THEN [Cur EXCEPT !.useNativeApp = ~@] ELSE Cur
             t == b.transport
         IN IF t # 0
            THEN /\ Commit([b EXCEPT !.transports[t].listeners = FALSE,
                                     !.transports[t].sent = <<>>,
                                     !.transports[t].focused = FALSE,
                                     !.transports[t].phase = "closed"])
                 /\ storageAwait' = storageAwait + 1
            ELSE /\ Commit(RunContinuations(storageChangedFinish(b)))
                 /\ storageAwait' = storageAwait

\* Transport.disconnect() resolved: storageChanged drops the transport, resets
\* the state and rejects the pending requests.
StorageChangedResume ==
    /\ storageAwait > 0
    /\ storageAwait' = storageAwait - 1
    /\ Commit(RunContinuations(storageChangedFinish([Cur EXCEPT !.transport = 0])))
    /\ UNCHANGED <<configChanges, nonceCheck>>

Next ==
    \/ BackendInit
    \/ ConnectWhenConnected
    \/ ConnectJoin
    \/ ConnectStart
    \/ \E a \in DOMAIN connects : TransportConnectResolved(a)
    \/ \E a \in DOMAIN connects : TransportConnectRejected(a)
    \/ Request
    \/ \E t \in DOMAIN transports : TransportMessage(t)
    \/ \E t \in DOMAIN transports : TransportNotification(t)
    \/ \E r \in DOMAIN requests : Timeout(r)
    \/ \E t \in DOMAIN transports : Disconnected(t)
    \/ StorageChanged
    \/ StorageChangedResume

Spec == Init /\ [][Next]_vars

\* ---------------------------------------------------------------------------
\* ProtocolImpl: nonces and the decryption of a response.
\* ---------------------------------------------------------------------------

\* Length of a nonce in bytes (_keySize in the program).
NonceLen == 3

\* A Uint8Array element holds c modulo Byte; c >>= 8 divides by Byte.
Byte == 256

\* The byte values the nonces are built from: both ends of the range and a
\* value next to one of them.
ByteSamples == {0, 1, 255}

\* ProtocolImpl.generateNonce: randomBytes(this._keySize).
Nonces == [1..NonceLen -> ByteSamples]

\* The '=' of base64; the other characters are their values 0..63.
Pad == 64

\* toBase64 of background/utils: three bytes become four characters, the last
\* group is padded.
RECURSIVE toBase64(_)
toBase64(d) ==
    IF d = <<>> THEN <<>>
    ELSE IF Len(d) = 1 THEN <<d[1] \div 4, (d[1] % 4) * 16, Pad, Pad>>
    ELSE IF Len(d) = 2
    THEN <<d[1] \div 4, (d[1] % 4) * 16 + d[2] \div 16, (d[2] % 16) * 4, Pad>>
    ELSE <<d[1] \div 4, (d[1] % 4) * 16 + d[2] \div 16, (d[2] % 16) * 4 + d[3] \div 64,
           d[3] % 64>> \o toBase64(SubSeq(d, 4, Len(d)))

\* The strings fromBase64 decodes; it throws on every other one.
IsBase64(s) ==
    /\ Len(s) % 4 = 0
    /\ \A i \in DOMAIN s : s[i] \in 0..Pad
    /\ \A i \in DOMAIN s : s[i] = Pad => /\ i >= Len(s) - 1
                                         /\ s[Len(s)] = Pad

\* fromBase64 of background/utils.
RECURSIVE fromBase64(_)
fromBase64(s) ==
    IF s = <<>> THEN <<>>
    ELSE IF s[3] = Pad THEN <<s[1] * 4 + s[2] \div 16>>
    ELSE IF s[4] = Pad THEN <<s[1] * 4 + s[2] \div 16, (s[2] % 16) * 16 + s[3] \div 4>>
    ELSE <<s[1] * 4 + s[2] \div 16, (s[2] % 16) * 16 + s[3] \div 4, (s[3] % 4) * 64 + s[4]>>
         \o fromBase64(SubSeq(s, 5, Len(s)))

\* The payloads a response can seal, and the keys it can be sealed with: the
\* key shared by this session and the peer, and a key of somebody else.
PayloadOk == 1
PayloadError == 2
SharedKey == 1
ForeignKey == 2

\* tweetnacl box: the ciphertext opens only with the nonce and the key it was
\* sealed with.
tweetnaclBox(data, nonce, key) == <<data, key>> \o nonce

\* tweetnacl box.open: the plaintext, or null (<<>>) when authentication fails.
tweetnaclBoxOpen(message, nonce, key) ==
    IF Len(message) >= 2 /\ message[2] = key /\ SubSeq(message, 3, Len(message)) = nonce
    THEN <<message[1]>>
    ELSE <<>>

ErrBadNonce == "Bad nonce in response"
ErrBadValue == "Bad value message: failed to decode base64"
ErrEmptyNonce == "Empty value nonce: expected base64"
ErrDecrypt == "decryption failed"

\* Mutant of incrementLoop: the carry is dropped after every byte.
RECURSIVE incrementLoop_NoCarry(_, _, _)
incrementLoop_NoCarry(nonceData, i, c) ==
    IF i > Len(nonceData) THEN nonceData
    ELSE LET c1 == c + nonceData[i]
         IN incrementLoop_NoCarry([nonceData EXCEPT ![i] = c1 % Byte], i + 1, 0)

\* The loop of ProtocolImpl.validateNonce: c += nonceData[i]; nonceData[i] = c;
\* c >>= 8, from index i (counted from 1) to the end.
RECURSIVE incrementLoop(_, _, _)
incrementLoop(nonceData, i, c) ==
    IF i > Len(nonceData) THEN nonceData
    ELSE LET c1 == c + nonceData[i]
         IN incrementLoop([nonceData EXCEPT ![i] = c1 % Byte], i + 1, c1 \div Byte)

\* ProtocolImpl.validateNonce: the expected string, and whether the check passes
\* (it throws ErrBadNonce otherwise).
validateNonce(nonce, incrementedNonce) ==
    LET expected == toBase64(incrementLoop(fromBase64(nonce), 1, 1))
    IN [expected |-> expected, ok |-> expected = incrementedNonce]

\* Mutant of decryptResponsePayload: the nonce of the response is not validated.
decryptResponsePayload_NoValidate(req, response) ==
    IF response.message = <<>>
    THEN [result |-> "undefined", expected |-> <<>>, opened |-> FALSE]
    ELSE IF ~IsBase64(response.message)
         THEN [result |-> ErrBadValue, expected |-> <<>>, opened |-> FALSE]
         ELSE IF response.nonce = <<>>
         THEN [result |-> ErrEmptyNonce, expected |-> <<>>, opened |-> FALSE]
         ELSE LET data == tweetnaclBoxOpen(fromBase64(response.message),
                                           fromBase64(response.nonce), SharedKey)
              IN [result |-> IF data = <<>> THEN ErrDecrypt
                             ELSE IF data[1] = PayloadError THEN ErrAppReturnedError
                             ELSE "payload",
                  expected |-> <<>>, opened |-> TRUE]

\* ProtocolImpl.decryptResponsePayload: what the call returns or throws, the
\* string validateNonce expected, and whether box.open was called.
decryptResponsePayload(req, response) ==
    IF response.message = <<>>
    THEN [result |-> "undefined", expected |-> <<>>, opened |-> FALSE]
    ELSE LET v == validateNonce(req.nonce, response.nonce)
         IN IF ~v.ok
            THEN [result |-> ErrBadNonce, expected |-> v.expected, opened |-> FALSE]
            ELSE IF ~IsBase64(response.message)
            THEN [result |-> ErrBadValue, expected |-> v.expected, opened |-> FALSE]
            ELSE IF response.nonce = <<>>
            THEN [result |-> ErrEmptyNonce, expected |-> v.expected, opened |-> FALSE]
            ELSE LET data == tweetnaclBoxOpen(fromBase64(response.message),
                                              fromBase64(response.nonce), SharedKey)
                 IN [result |-> IF data = <<>> THEN ErrDecrypt
                                ELSE IF data[1] = PayloadError THEN ErrAppReturnedError
                                ELSE "payload",
                     expected |-> v.expected, opened |-> TRUE]

\* The number a byte sequence stands for, least significant byte first.
RECURSIVE LittleEndian(_)
LittleEndian(d) ==
    IF d = <<>> THEN 0 ELSE d[1] + Byte * LittleEndian(Tail(d))

\* The n bytes of the number v, least significant byte first.
Bytes(v, n) == [i \in 1..n |-> (v \div (Byte ^ (i - 1))) % Byte]

\* A byte sequence as two numbers: its three low bytes and the bytes above
\* them.  Each of the two fits the 32-bit integers of TLC.
Low(d) == SubSeq(d, 1, IF Len(d) < 3 THEN Len(d) ELSE 3)
High(d) == SubSeq(d, Len(Low(d)) + 1, Len(d))

\* The number of N plus one modulo Byte^Len(N), as the low number and the high
\* number of the result: the low number overflows into the high one, the
\* overflow of the high number is dropped.
PlusOne(N) ==
    LET lo == LittleEndian(Low(N)) + 1
        m == Byte ^ Len(Low(N))
    IN [low |-> lo % m,
        high |-> (LittleEndian(High(N)) + lo \div m) % (Byte ^ Len(High(N)))]

\* The nonce the peer answers with: the number of N plus one, modulo
\* Byte^Len(N), least significant byte first.
Successor(N) == Bytes(PlusOne(N).low, Len(Low(N))) \o Bytes(PlusOne(N).high, Len(High(N)))

\* The nonce strings a response can carry for request nonce n: none, the
\* encoding of any nonce (n itself included), and the successor of n.
ResponseNonces(n) == {<<>>} \cup {toBase64(m) : m \in Nonces \cup {Successor(n)}}

\* The message strings a response can carry next to nonce string rn: none, a
\* string that is not base64, and a payload sealed with the nonce the response
\* names (with the successor of n when it names none).
ResponseMessages(n, rn) ==
    LET sealNonce == IF rn = <<>> THEN Successor(n) ELSE fromBase64(rn)
    IN {<<>>, <<Pad>>} \cup
       {toBase64(tweetnaclBox(data, sealNonce, key)) :
            data \in {PayloadOk, PayloadError}, key \in {SharedKey, ForeignKey}}

\* A request with a fresh nonce has been answered; decryptResponsePayload is
\* about to be called with the two.
NonceInit ==
    /\ Constructed
    /\ \E n \in Nonces : \E rn \in ResponseNonces(n) : \E m \in ResponseMessages(n, rn) :
           nonceCheck = [pc |-> "call", request |-> [nonce |-> toBase64(n)],
                         response |-> [message |-> m, nonce |-> rn],
                         result |-> "none", expected |-> <<>>, opened |-> FALSE]

\* The call of decryptResponsePayload.
DecryptResponsePayload ==
    /\ nonceCheck.pc = "call"
    /\ LET out == decryptResponsePayload(nonceCheck.request, nonceCheck.response)
       IN nonceCheck' = [nonceCheck EXCEPT !.pc = "done", !.result = out.result,
                                           !.expected = out.expected, !.opened = out.opened]
    /\ UNCHANGED <<state, connectionError, useNativeApp, transport, protocol, requestQueue,
                   currentRequest, requests, transports, keewebPublicKey, connects, joiners,
                   storageAwait, configChanges, dispatchLog>>

NonceNext == DecryptResponsePayload

NonceSpec == NonceInit /\ [][NonceNext]_vars

TypeOK ==
    /\ state \in {Initializing, ReadyToConnect, Connecting, Connected, Error}
    /\ transport \in 0..Len(transports)
    /\ currentRequest \in 0..Len(requests)
    /\ Range(requestQueue) \subseteq DOMAIN requests

\* The requests handed to Transport.request so far.
Dispatched == {dispatchLog[i].request : i \in DOMAIN dispatchLog}

\* The dispatched requests that are neither resolved, rejected nor timed out.
InFlight == {r \in Dispatched : requests[r].status = "pending"}

\* C1: at most one request is in flight: a request is handed to
\* Transport.request only when no request dispatched earlier is still pending.
C1_AtMostOneInFlight == Cardinality(InFlight) <= 1

\* The unsettled requests that are in the queue or in the in-flight slot.
Outstanding ==
    {r \in Range(requestQueue) \cup ({currentRequest} \ {0}) : requests[r].status = "pending"}

DisconnectErrors == {ErrKeeWebDisconnected, ErrConnectionErrorApp, ErrConnectionErrorWeb}

\* C2: when a transport fires 'disconnected' while a request is in flight, every
\* request in flight or queued is rejected with the one disconnect error (which
\* is also the connection error), the state becomes Error, and the queue and
\* the in-flight slot are empty afterwards.
C2_DisconnectRejectsAll ==
    [][\A t \in DOMAIN transports :
          (Disconnected(t) /\ currentRequest # 0) =>
              /\ state' = Error
              /\ requestQueue' = <<>>
              /\ currentRequest' = 0
              /\ connectionError' \in DisconnectErrors
              /\ \A r \in Outstanding :
                     /\ requests'[r].status = "rejected"
                     /\ requests'[r].error = connectionError']_vars

\* C2 witness: one 'disconnected' event has rejected three requests (one in
\* flight, two queued) with the disconnect error.
C2_Witness ==
    /\ Cardinality({t \in DOMAIN transports : transports[t].disconnected}) = 1
    /\ state = Error
    /\ Cardinality({r \in DOMAIN requests :
                       /\ requests[r].status = "rejected"
                       /\ requests[r].error = ErrKeeWebDisconnected}) = 3

\* C3: a response is delivered only to the request it answers: the message that
\* arrives for a timed-out request is never the response of another request.
C3_LateResponseIgnored ==
    \A r \in DOMAIN requests :
        requests[r].status = "resolved" => requests[r].response.for = r

\* The connect frames that have not finished (their handshake has not resolved).
Unfinished == {a \in DOMAIN connects : connects[a].pc # "done"}

C5_SameOutcome ==
    \A a \in DOMAIN connects : \A j \in joiners :
        (connects[a].pc = "done" /\ j.attempt = a /\ j.promise # "pending") =>
            /\ connects[a].promise = j.promise
            /\ connects[a].outcome = "connected" => j.promise = "resolved"
            /\ connects[a].outcome = "failed" => j.promise = "rejected"

\* C6: every call of Transport.request is made in state Connected, or in state
\* Connecting for a change-public-keys request.
C6_DispatchOnlyWhenAllowed ==
    \A i \in DOMAIN dispatchLog :
        \/ dispatchLog[i].state = Connected
        \/ /\ dispatchLog[i].state = Connecting
           /\ requests[dispatchLog[i].request].action = ChangePublicKeys

\* C6 witness: a handshake was sent while Connecting, a domain request while
\* Connected, and a domain request submitted while not connected stays queued.
C6_Witness ==
    /\ \E i \in DOMAIN dispatchLog : dispatchLog[i].state = Connecting
    /\ \E i \in DOMAIN dispatchLog : dispatchLog[i].state = Connected
    /\ state \in {Error, ReadyToConnect}
    /\ currentRequest = 0
    /\ \E r \in Range(requestQueue) :
           requests[r].action # ChangePublicKeys /\ requests[r].status = "pending"

\* C7: requests are handed to the transport in the order they were submitted.
C7_FifoDispatch ==
    \A i, j \in DOMAIN dispatchLog :
        i < j => dispatchLog[i].request < dispatchLog[j].request

\* C7 witness: a handshake and two domain requests have been dispatched in
\* submission order while a later request waits in the queue behind the one in
\* flight.
C7_Witness ==
    /\ Len(dispatchLog) >= 3
    /\ currentRequest # 0
    /\ requests[currentRequest].status = "pending"
    /\ requestQueue # <<>>
    /\ currentRequest < Head(requestQueue)

\* C8: a configuration change, once processed, has dropped the transport,
\* rejected the outstanding requests with the configuration-changed error and
\* left the state at ReadyToConnect, where it stays until connect() is called.
C8_ConfigChangeResets ==
    /\ [][(StorageChangedResume \/ (StorageChanged /\ transport = 0)) =>
             /\ state' = ReadyToConnect
             /\ transport' = 0
             /\ requestQueue' = <<>>
             /\ currentRequest' = 0
             /\ \A r \in Outstanding :
                    /\ requests'[r].status = "rejected"
                    /\ requests'[r].error = ErrConfigChanged]_vars
    /\ [][(configChanges > 0 /\ state = ReadyToConnect /\ state' # ReadyToConnect) =>
             ConnectStart]_vars

\* ProtocolImpl._keewebPublicKey of the current ProtocolImpl is set.
PeerKeySet == protocol # 0 /\ keewebPublicKey[protocol]

\* C9: the peer public key is set exactly when the state is Connected or a
\* handshake is completing (read here as: at most while Connecting); it is
\* cleared by a 'disconnected' event and by a configuration change.
C9_PeerKeyIffConnected ==
    /\ state = Connected => PeerKeySet
    /\ PeerKeySet => state \in {Connected, Connecting}

\* C10: a transport that has fired 'disconnected' has no listeners attached.
C10_ListenersDetached ==
    \A t \in DOMAIN transports : transports[t].disconnected => ~transports[t].listeners

\* The connect frames that return in the step.
Finishing == {a \in DOMAIN connects : connects[a].pc # "done" /\ connects'[a].pc = "done"}

\* The error text with which connect frame a failed in the step: Transport.connect
\* rejected, or the handshake was rejected (timeout included), or the peer
\* answered it with an error.
FailureText(a) ==
    IF connects[a].pc = "transportConnect" THEN ErrTransportConnect
    ELSE LET q == requests'[connects[a].handshake]
         IN IF q.status = "rejected" THEN q.error
            ELSE IF q.response.error THEN ErrAppReturnedError
            ELSE ErrBadPublicKey

\* C11: a connection attempt ends in one of two ways.  Either Transport.connect
\* and the handshake succeeded (a response without error): the peer key is
\* stored and the state becomes Connected.  Or one of them failed: no peer key
\* is stored, the error text becomes the connection error and the state
\* becomes Error.
C11_AttemptOutcome ==
    [][\A a \in Finishing :
          \/ /\ connects'[a].outcome = "connected"
             /\ connects[a].pc = "changePublicKeys"
             /\ requests'[connects[a].handshake].status = "resolved"
             /\ ~requests'[connects[a].handshake].response.error
             /\ keewebPublicKey'[connects[a].protocol]
             /\ state' = Connected
          \/ /\ connects'[a].outcome = "failed"
             /\ \/ connects[a].pc = "transportConnect"
                \/ requests'[connects[a].handshake].status = "rejected"
                \/ requests'[connects[a].handshake].response.error
             /\ \A p \in DOMAIN keewebPublicKey : keewebPublicKey'[p] = keewebPublicKey[p]
             /\ connectionError' = FailureText(a)
             /\ state' = Error]_vars

\* The transitions of BackendConnectionState the state machine allows.
AllowedEdges ==
    {<<Initializing, ReadyToConnect>>,
     <<ReadyToConnect, Connecting>>, <<Error, Connecting>>,
     <<Connecting, Connected>>, <<Connecting, Error>>,
     <<Connected, Error>>,
     <<Connected, ReadyToConnect>>, <<Connecting, ReadyToConnect>>,
     <<Error, ReadyToConnect>>}

\* C12: the connection state changes only along the allowed edges.
C12_StateEdges ==
    [][state' # state => <<state, state'>> \in AllowedEdges]_vars

\* The requests each transport has been handed and not yet answered.
Sent == [t \in DOMAIN transports |-> transports[t].sent]

\* C13: an inbound database-locked, database-unlocked or attention-required
\* message is matched to no request: the in-flight request stays pending with
\* its timer armed, the queue and the connection state stay as they are, and
\* nothing is dispatched.
C13_NotificationFrame ==
    [][\A t \in DOMAIN transports :
          TransportNotification(t) =>
              /\ UNCHANGED <<state, connectionError, requestQueue, currentRequest,
                             requests, dispatchLog, connects, joiners>>
              /\ Sent' = Sent]_vars

\* C13 witness: attention-required arrived on the only transport while its
\* handshake, dispatched the moment the transport opened, is in flight; the
\* handshake is still pending with its timer armed.
C13_Witness ==
    /\ Len(transports) = 1
    /\ transports[1].focused
    /\ state = Connecting
    /\ currentRequest = 1
    /\ requests[1].status = "pending"
    /\ requests[1].timeout
    /\ dispatchLog = <<[request |-> 1, state |-> Connecting, transport |-> 1]>>

\* C14: connect() while Connected does nothing and returns success: state,
\* transport, protocol session, queue and in-flight slot stay as they are, no
\* request is rejected and no handshake is sent.
C14_ConnectedNoOp ==
    [][ConnectWhenConnected =>
          UNCHANGED <<state, connectionError, transport, protocol, requestQueue,
                      currentRequest, requests, transports, keewebPublicKey,
                      connects, dispatchLog>>]_vars

\* C14 witness: during the first Connected period a connect() call returned at
\* once, and a request is in flight with its timer armed, another one waits,
\* the transport is open and the session holds the peer key.
C14_Witness ==
    /\ [attempt |-> 0, promise |-> "resolved"] \in joiners
    /\ Len(connects) = 1
    /\ state = Connected
    /\ currentRequest # 0
    /\ requests[currentRequest].status = "pending"
    /\ requests[currentRequest].timeout
    /\ requestQueue # <<>>
    /\ transports[transport].phase = "open"
    /\ keewebPublicKey[protocol]

\* C15: for a response that carries a message, decryptResponsePayload fails with
\* the bad-nonce error whenever the nonce of the response is not the successor
\* of the nonce of the request, and it does so without attempting decryption.
C15_BadNonceRejected ==
    (/\ nonceCheck.pc = "done"
     /\ nonceCheck.response.message # <<>>
     /\ nonceCheck.response.nonce # toBase64(Successor(fromBase64(nonceCheck.request.nonce))))
        => /\ nonceCheck.result = ErrBadNonce
           /\ ~nonceCheck.opened

\* C15 witness: the response echoes the nonce of the request and carries a
\* payload sealed correctly with that nonce; it was rejected for its nonce and
\* box.open was not called.
C15_Witness ==
    /\ nonceCheck.pc = "done"
    /\ nonceCheck.response.nonce = nonceCheck.request.nonce
    /\ nonceCheck.response.message =
           toBase64(tweetnaclBox(PayloadOk, fromBase64(nonceCheck.request.nonce), SharedKey))
    /\ nonceCheck.result = ErrBadNonce
    /\ ~nonceCheck.opened

\* C16: the successor validateNonce computes is the number of the nonce plus one
\* modulo 256^length, least significant byte first: the carry runs through all
\* bytes, the carry out of the last byte is dropped, the all-0xFF nonce is
\* followed by the all-zero nonce, and the successor differs from the nonce.
C16_SuccessorLittleEndian ==
    (nonceCheck.pc = "done" /\ nonceCheck.response.message # <<>>) =>
        LET N == fromBase64(nonceCheck.request.nonce)
            S == fromBase64(nonceCheck.expected)
        IN /\ Len(S) = Len(N)
           /\ LittleEndian(Low(S)) = PlusOne(N).low
           /\ LittleEndian(High(S)) = PlusOne(N).high
           /\ (\A i \in DOMAIN N : N[i] = Byte - 1) => (\A i \in DOMAIN S : S[i] = 0)
           /\ S # N

\* C16 witness: the nonce of the request is all 0xFF, the expected nonce is all
\* zero, and the response that carries it was accepted.
C16_Witness ==
    /\ nonceCheck.pc = "done"
    /\ fromBase64(nonceCheck.request.nonce) = [i \in 1..NonceLen |-> Byte - 1]
    /\ fromBase64(nonceCheck.expected) = [i \in 1..NonceLen |-> 0]
    /\ nonceCheck.result = "payload"

\* C17: the timeout of a request releases that request only: when another
\* request is in flight, the in-flight slot still holds it after the timeout,
\* and the order of the queued requests is unchanged.
C17_TimeoutReleasesOnlyItsRequest ==
    [][\A r \in DOMAIN requests :
          (Timeout(r) /\ currentRequest # r) =>
              /\ currentRequest' = currentRequest
              /\ requestQueue' = requestQueue]_vars

\* C18: a settled request is gone: once rejected it is neither in the queue nor
\* in the in-flight slot, and it is not handed to the transport afterwards.
C18_RejectedIsGone ==
    [][\A r \in DOMAIN requests :
          requests'[r].status = "rejected" =>
              /\ r \notin Range(requestQueue')
              /\ currentRequest' # r
              /\ Len(dispatchLog') > Len(dispatchLog) =>
                     dispatchLog'[Len(dispatchLog')].request # r]_vars

\* C19: in state Connected the head of a non-empty queue is dispatched as soon
\* as no request is in flight, without a further request() call or inbound
\* message: no state is left Connected with an empty slot and a waiting request.
C19_QueueDrained ==
    ~(state = Connected /\ currentRequest = 0 /\ requestQueue # <<>>)

\* C20: every request submitted through request() is eventually settled
\* (resolved or rejected), whatever the state and the interleaving, provided
\* that armed timers eventually fire.  As a property of finite runs: a request
\* that is not settled has its timer armed, in every reachable state, so the
\* timer, which settles the request when it fires, is still to fire.
C20_PendingHasTimer ==
    \A r \in DOMAIN requests :
        requests[r].status = "pending" => requests[r].timeout

\* C20 witness: a request was queued while the backend was in state Error, was
\* never dispatched, and was settled by its timer alone.
C20_Witness ==
    \E r \in DOMAIN requests :
        /\ requests[r].action = GetDatabaseHash
        /\ requests[r].status = "rejected"
        /\ requests[r].error = ErrRequestTimeout
        /\ r \notin Dispatched
        /\ state = Error

====
